---- MODULE Spec2Model ----
(***************************************************************************)
(* BLE log analysis: the record parser (parse_log) and the session         *)
(* aggregator (summarize_records, and the per-session series built in      *)
(* main) of analyze_ble_logs_combine.py.                                   *)
(*                                                                         *)
(* A Python dict is a function from its keys (strings) to its values, so   *)
(* "k in d" is k \in DOMAIN d.  A Python value that may be None is an      *)
(* option: None is <<>> and the value v is <<v>>.                          *)
(***************************************************************************)
EXTENDS Integers, Sequences, FiniteSets, TLC

\* ------------------------------------------------------------------ bounds

\* Lines one parsed file holds at most.
MaxLines == 8

\* Records a session handed to the aggregator holds at most.
MaxRecords == 3

\* ------------------------------------------------------------ input values

\* Numbers the scan-cycle marker, and each field line, may carry.
CycleVals == {1, 2}
RxVals == {1000}
CounterVals == {5, 6}
TxVals == {990}
DeltaVals == {10}
RssiVals == {-60}

\* The path handed to parse_log, as its components; the file name is its
\* stem and its extension.
LogPath == <<"logs", <<"x", ".log">>>>

\* --------------------------------------------------------------- helpers

None == <<>>
Some(v) == <<v>>

\* os.path.basename
Basename(p) == p[Len(p)]

\* os.path.splitext
Splitext(name) == name

\* d[k] = v on a dict
Put(d, k, v) == [x \in DOMAIN d \cup {k} |-> IF x = k THEN v ELSE d[x]]

\* The dict key each field line writes, and the numbers it may carry.
FieldKeys == {"rx_unix_ms", "tx_counter", "tx_unix_ms", "delta_ms", "rssi_dbm"}
FieldVals(k) ==
    CASE k = "rx_unix_ms" -> RxVals
      [] k = "tx_counter" -> CounterVals
      [] k = "tx_unix_ms" -> TxVals
      [] k = "delta_ms" -> DeltaVals
      [] k = "rssi_dbm" -> RssiVals

\* expected_count = 200 in main, and the default of summarize_records.
ExpectedDefault == 200

\* analyze_ble_logs.py: expected_count = 200 inside summarize_records.
ExpectedSingle == 200

\* The 16-bit mask of analyze_ble_logs.py's expected_span.
CounterMask == 65536

\* The field patterns whose number token is [-0-9]+ : a token such as "-"
\* matches the pattern and is no integer, so int() raises ValueError.
SignedKeys == {"delta_ms", "rssi_dbm"}

VARIABLES
    pc,          \* "parsing" | "done" (parse_log returned) | "error" (it raised)
    scan_cycle,  \* parse_log's scan_cycle: None or Some(n)
    current,     \* parse_log's current: None or Some(dict)
    records,     \* parse_log's records: a sequence of dicts
    nlines,      \* lines read so far
    nblocks,     \* history: block-start markers read so far
    cur_h,       \* history of the open record: its block, the scan cycle when
                 \* it was opened, the field lines read for it, and for each
                 \* field the value of the last line of that field
    rec_h,       \* history of each emitted record, parallel to records: cur_h
                 \* of the record, and what emitted it
    line,        \* history: the kind of the line read last
    csv_pc, csv_current, csv_records,
                 \* pc, current and records of ble_logs_to_csv.py's parse_log,
                 \* run on the same lines
    csv_blk,     \* history: the block of the open record of that run
    csv_rec_blk, \* history: the block of each record it emitted
    script,      \* which analysis script runs: "combine"
                 \* (analyze_ble_logs_combine.py) or "single"
                 \* (analyze_ble_logs.py)
    expected_count,  \* expected_count: main's, handed to summarize_records
                 \* ("combine"); summarize_records' own local ("single")
    apc,         \* main's place in the work on one file: "idle" | "summarize" |
                 \* "plots" | "series" | "finished" | "error" (an exception
                 \* left main)
    err,         \* the exception raised, "" when none
    metrics,     \* what summarize_records printed and returned, None before
    plot_xy,     \* the x and y lists plot_rssi_vs_counter built, None before
    all_line_data, all_hist_data, all_mean_data, all_loss_data, \* main's lists
    view_pc,     \* the combined views: "idle" | "combined" (in the loop of
                 \* plot_combined_rssi_vs_counter) | "bars" | "finished"
    current_offset,  \* plot_combined_rssi_vs_counter's current_offset
    combined,    \* what it plotted: <<label, xs, y_list>> per sequence
    bars,        \* what plot_loss_and_receive_bars drew, None before
    max_points,  \* live_rssi_plot.py: --max-points
    ser,         \* the serial port: "unopened" | "open" | "failed" | "closed"
    stop_flag,   \* stop_flag["stop"]
    data_lock,   \* who holds data_lock: "free" | "reader" | "main"
    live_counters, live_rssis,  \* the two deques, counters and rssis
    current_counter, current_rssi,  \* serial_reader's locals
    reader_pc,   \* where serial_reader is: "open" | "check" (the while test) |
                 \* "call" (test passed, readline not yet called) | "read"
                 \* (in readline) | "acquire" | "append_c" | "append_r" |
                 \* "evict" | "pop_r" | "release" | "clear" | "backoff" |
                 \* "close" | "exited" | "killed" (the daemon thread ended
                 \* with the process)
    main_pc,     \* where main is: "acquire" | "copy_x" | "copy_y" | "release" |
                 \* "render" | "sleep" | "finally" | "join" | "cleanup" |
                 \* "exited"
    snap_x, snap_y,  \* main's x and y, the snapshot lists
    fed,         \* history: calls of readline that returned a line or raised
    errors,      \* history: exceptions the handler of serial_reader caught
    fed_c, fed_r,    \* history: counter values and RSSI values delivered
    seen_c, seen_r,  \* history: the last counter and the last RSSI parsed
                 \* since the last append, None when none
    appended,    \* history: every pair appended, in order
    snap_at,     \* history: Len(appended) when main last took the lock
    closes,      \* history: calls of ser.close()
    reads_after_stop \* history: calls of readline made with the flag set

csv_vars == <<csv_pc, csv_current, csv_records, csv_blk, csv_rec_blk>>
parser_vars == <<pc, scan_cycle, current, nlines, nblocks, cur_h, rec_h, line,
                 csv_vars>>
main_vars == <<script, expected_count, apc, err, metrics, plot_xy,
               all_line_data, all_hist_data, all_mean_data, all_loss_data>>
view_vars == <<view_pc, current_offset, combined, bars>>
live_vars == <<max_points, ser, stop_flag, data_lock, live_counters,
               live_rssis,
               current_counter, current_rssi, reader_pc, main_pc, snap_x, snap_y,
               fed, errors, fed_c, fed_r, seen_c, seen_r, appended, snap_at,
               closes,
               reads_after_stop>>
vars == <<parser_vars, records, main_vars, view_vars, live_vars>>

\* The combined views are not being drawn, live_rssi_plot.py is not running.
ViewsIdle ==
    /\ view_pc = "idle"
    /\ current_offset = 0
    /\ combined = <<>>
    /\ bars = <<>>

LiveIdle ==
    /\ max_points = 0
    /\ ser = "unopened"
    /\ stop_flag = FALSE
    /\ data_lock = "free"
    /\ live_counters = <<>>
    /\ live_rssis = <<>>
    /\ current_counter = <<>>
    /\ current_rssi = <<>>
    /\ reader_pc = "exited"
    /\ main_pc = "exited"
    /\ snap_x = <<>>
    /\ snap_y = <<>>
    /\ fed = 0
    /\ errors = 0
    /\ fed_c = 0
    /\ fed_r = 0
    /\ seen_c = <<>>
    /\ seen_r = <<>>
    /\ appended = <<>>
    /\ snap_at = 0
    /\ closes = 0
    /\ reads_after_stop = 0

\* Python's truth value of current: None and the empty dict are false.
Truthy(c) == c # None /\ DOMAIN c[1] # {}

\* "if current and 'rssi_dbm' in current"
Complete(c) == Truthy(c) /\ "rssi_dbm" \in DOMAIN c[1]

\* The three statements that emit a record: tag it with the file and the
\* scan cycle of now, and append it.
Tagged(d) == Put(Put(d, "file", Basename(LogPath)), "scan_cycle", scan_cycle)

\* No field line read yet.
NoFields == [k \in {} |-> 0]

NoHistory == [blk |-> 0, cycle |-> None, seen |-> {}, last |-> NoFields]
Emitted(h, by) ==
    [blk |-> h.blk, cycle |-> h.cycle, seen |-> h.seen, last |-> h.last,
     by |-> by]

Init ==
    /\ pc = "parsing"
    /\ scan_cycle = None
    /\ current = None
    /\ records = <<>>
    /\ nlines = 0
    /\ nblocks = 0
    /\ cur_h = NoHistory
    /\ rec_h = <<>>
    /\ line = "none"
    /\ csv_pc = "parsing"
    /\ csv_current = None
    /\ csv_records = <<>>
    /\ csv_blk = 0
    /\ csv_rec_blk = <<>>
    /\ script = "combine"
    /\ expected_count = ExpectedDefault
    /\ apc = "idle"
    /\ err = ""
    /\ metrics = None
    /\ plot_xy = None
    /\ all_line_data = <<>>
    /\ all_hist_data = <<>>
    /\ all_mean_data = <<>>
    /\ all_loss_data = <<>>
    /\ ViewsIdle
    /\ LiveIdle

\* ------------------------------- ble_logs_to_csv.py's copy of parse_log

\* TX_DEVICE_NAME
TxDeviceName == "A72Aziz"

\* current = {}
EmptyDict == [x \in {} |-> 0]

\* The key the copy writes each field under.
CsvKey(k) ==
    CASE k = "rx_unix_ms" -> "rx_unix_ms(esp32)"
      [] k = "tx_counter" -> "payload_counter"
      [] k = "tx_unix_ms" -> "tx_unix_ms(phone)"
      [] k = "delta_ms" -> "delta_ms"
      [] k = "rssi_dbm" -> "rssi_dbm"

\* The two statements that emit a record: tag it with the device name, and
\* append it.
CsvFlush ==
    /\ csv_records' = Append(csv_records,
                             Put(csv_current[1], "tx_device_name", TxDeviceName))
    /\ csv_rec_blk' = Append(csv_rec_blk, csv_blk)

CsvIgnored == UNCHANGED csv_vars

\* The copy has no scan-cycle pattern: a scan-cycle marker is a line no
\* pattern matches.
CsvOtherLine == CsvIgnored

CsvBlockStart ==
    IF csv_pc # "parsing" THEN CsvIgnored
    ELSE /\ IF Complete(csv_current)
              THEN CsvFlush
              ELSE UNCHANGED <<csv_records, csv_rec_blk>>
         /\ csv_current' = Some(EmptyDict)
         /\ csv_blk' = nblocks + 1
         /\ UNCHANGED csv_pc

CsvFieldLine(k, v) ==
    IF csv_pc # "parsing" \/ csv_current = None THEN CsvIgnored
    ELSE /\ csv_current' = Some(Put(csv_current[1], CsvKey(k), v))
         /\ UNCHANGED <<csv_pc, csv_records, csv_blk, csv_rec_blk>>

CsvBadNumberLine(k) ==
    IF csv_pc # "parsing" \/ csv_current = None THEN CsvIgnored
    ELSE /\ csv_pc' = "error"
         /\ UNCHANGED <<csv_current, csv_records, csv_blk, csv_rec_blk>>

\* CsvBlankLine that flushes the open record whether or not it has an RSSI.
CsvBlankLine_FlushesAny ==
    IF csv_pc # "parsing" \/ csv_current = None THEN CsvIgnored
    ELSE /\ CsvFlush
         /\ csv_current' = None
         /\ csv_blk' = 0
         /\ UNCHANGED csv_pc

CsvBlankLine ==
    IF csv_pc # "parsing" \/ csv_current = None THEN CsvIgnored
    ELSE IF "rssi_dbm" \in DOMAIN csv_current[1]
           THEN /\ CsvFlush
                /\ csv_current' = None
                /\ csv_blk' = 0
                /\ UNCHANGED csv_pc
           ELSE CsvIgnored

CsvEndOfInput ==
    IF csv_pc # "parsing" THEN CsvIgnored
    ELSE /\ csv_pc' = "done"
         /\ IF Complete(csv_current)
              THEN CsvFlush
              ELSE UNCHANGED <<csv_records, csv_rec_blk>>
         /\ UNCHANGED <<csv_current, csv_blk>>

\* write_csv: header
CsvHeader == <<"tx_unix_ms(phone)", "rx_unix_ms(esp32)", "payload_counter",
               "delta_ms", "rssi_dbm", "tx_device_name">>

\* row = {col: r.get(col, "") for col in header}; the cell is Some(value), or
\* None for the empty string.
CsvRow(r) ==
    [c \in {CsvHeader[i] : i \in 1..Len(CsvHeader)} |->
        IF c \in DOMAIN r THEN Some(r[c]) ELSE None]

\* The rows write_csv writes under the header; no file when there is no
\* record.
CsvRows(rs) == [i \in 1..Len(rs) |-> CsvRow(rs[i])]

\* ------------------------- parse_log of the analysis scripts, line by line

\* The loop reads one more line.
ReadLine(kind) ==
    /\ pc = "parsing"
    /\ nlines < MaxLines
    /\ nlines' = nlines + 1
    /\ line' = kind
    /\ UNCHANGED <<main_vars, view_vars, live_vars>>

\* "=== Scan cycle #n START"
ScanCycleLine(n) ==
    /\ ReadLine("scan")
    /\ CsvOtherLine
    /\ scan_cycle' = Some(n)
    /\ UNCHANGED <<pc, current, records, nblocks, cur_h, rec_h>>

\* Mutant: the open record is flushed whether or not it is complete.
BlockStart_FlushesAny ==
    /\ ReadLine("start")
    /\ CsvBlockStart
    /\ IF Truthy(current)
         THEN /\ records' = Append(records, Tagged(current[1]))
              /\ rec_h' = Append(rec_h, Emitted(cur_h, "start"))
         ELSE UNCHANGED <<records, rec_h>>
    /\ current' = Some([scan_cycle |-> scan_cycle])
    /\ nblocks' = nblocks + 1
    /\ cur_h' = [blk |-> nblocks + 1, cycle |-> scan_cycle, seen |-> {},
                 last |-> NoFields]
    /\ UNCHANGED <<pc, scan_cycle>>

\* Mutant: the open record is dropped even when it is complete.
BlockStart_DropsComplete ==
    /\ ReadLine("start")
    /\ CsvBlockStart
    /\ UNCHANGED <<records, rec_h>>
    /\ current' = Some([scan_cycle |-> scan_cycle])
    /\ nblocks' = nblocks + 1
    /\ cur_h' = [blk |-> nblocks + 1, cycle |-> scan_cycle, seen |-> {},
                 last |-> NoFields]
    /\ UNCHANGED <<pc, scan_cycle>>

\* "=== TARGET BLE DEVICE DETECTED ===": flush the open record if it is
\* complete, then open a new one.
BlockStart ==
    /\ ReadLine("start")
    /\ CsvBlockStart
    /\ IF Complete(current)
         THEN /\ records' = Append(records, Tagged(current[1]))
              /\ rec_h' = Append(rec_h, Emitted(cur_h, "start"))
         ELSE UNCHANGED <<records, rec_h>>
    /\ current' = Some([scan_cycle |-> scan_cycle])
    /\ nblocks' = nblocks + 1
    /\ cur_h' = [blk |-> nblocks + 1, cycle |-> scan_cycle, seen |-> {},
                 last |-> NoFields]
    /\ UNCHANGED <<pc, scan_cycle>>

\* "if current is None: continue": a line that is neither marker is ignored
\* while no record is open.
Ignored == UNCHANGED <<pc, scan_cycle, current, records, nblocks, cur_h, rec_h>>

\* FieldLine that keeps the first value of a field.
FieldLine_FirstWins(k, v) ==
    /\ ReadLine("field")
    /\ CsvFieldLine(k, v)
    /\ IF current = None
         THEN Ignored
         ELSE /\ current' = (IF k \in DOMAIN current[1]
                               THEN current
                               ELSE Some(Put(current[1], k, v)))
              /\ cur_h' = [cur_h EXCEPT !.seen = @ \cup {<<k, v>>},
                                        !.last = Put(@, k, v)]
              /\ UNCHANGED <<pc, scan_cycle, records, nblocks, rec_h>>

\* A field line whose number token is an integer: current[k] = int(token).
FieldLine(k, v) ==
    /\ ReadLine("field")
    /\ CsvFieldLine(k, v)
    /\ IF current = None
         THEN Ignored
         ELSE /\ current' = Some(Put(current[1], k, v))
              /\ cur_h' = [cur_h EXCEPT !.seen = @ \cup {<<k, v>>},
                                        !.last = Put(@, k, v)]
              /\ UNCHANGED <<pc, scan_cycle, records, nblocks, rec_h>>

\* A delta or RSSI line whose token matches [-0-9]+ and is no integer:
\* int() raises ValueError, which parse_log does not catch.
BadNumberLine(k) ==
    /\ ReadLine("bad")
    /\ CsvBadNumberLine(k)
    /\ IF current = None
         THEN Ignored
         ELSE /\ pc' = "error"
              /\ UNCHANGED <<scan_cycle, current, records, nblocks, cur_h, rec_h>>

\* Mutant: the flushed record stays open.
BlankLine_KeepsOpen ==
    /\ ReadLine("blank")
    /\ CsvBlankLine
    /\ IF current = None
         THEN Ignored
         ELSE IF "rssi_dbm" \in DOMAIN current[1]
                THEN /\ records' = Append(records, Tagged(current[1]))
                     /\ rec_h' = Append(rec_h, Emitted(cur_h, "blank"))
                     /\ UNCHANGED <<pc, scan_cycle, nblocks, current, cur_h>>
                ELSE Ignored

\* An empty line: flush the open record if it is complete.
BlankLine ==
    /\ ReadLine("blank")
    /\ CsvBlankLine
    /\ IF current = None
         THEN Ignored
         ELSE IF "rssi_dbm" \in DOMAIN current[1]
                THEN /\ records' = Append(records, Tagged(current[1]))
                     /\ rec_h' = Append(rec_h, Emitted(cur_h, "blank"))
                     /\ current' = None
                     /\ cur_h' = NoHistory
                     /\ UNCHANGED <<pc, scan_cycle, nblocks>>
                ELSE Ignored

\* A line no pattern matches.
OtherLine ==
    /\ ReadLine("other")
    /\ CsvOtherLine
    /\ Ignored

\* Mutant: the last record is not flushed.
EndOfInput_NoFlush ==
    /\ pc = "parsing"
    /\ CsvEndOfInput
    /\ pc' = "done"
    /\ line' = "eof"
    /\ UNCHANGED <<scan_cycle, current, records, nlines, nblocks, cur_h, rec_h>>
    /\ UNCHANGED <<main_vars, view_vars, live_vars>>

\* End of input: flush the last record if it is complete, and return.
EndOfInput ==
    /\ pc = "parsing"
    /\ CsvEndOfInput
    /\ pc' = "done"
    /\ IF Complete(current)
         THEN /\ records' = Append(records, Tagged(current[1]))
              /\ rec_h' = Append(rec_h, Emitted(cur_h, "eof"))
         ELSE UNCHANGED <<records, rec_h>>
    /\ line' = "eof"
    /\ UNCHANGED <<scan_cycle, current, nlines, nblocks, cur_h>>
    /\ UNCHANGED <<main_vars, view_vars, live_vars>>

Next ==
    \/ \E n \in CycleVals : ScanCycleLine(n)
    \/ BlockStart
    \/ \E k \in FieldKeys : \E v \in FieldVals(k) : FieldLine(k, v)
    \/ \E k \in SignedKeys : BadNumberLine(k)
    \/ BlankLine
    \/ OtherLine
    \/ EndOfInput

Spec == Init /\ [][Next]_vars

\* ------------------------------------------------- the session aggregator

\* Values expected_count takes: none expected, fewer than received, main's.
ExpectedVals == {0, 2, ExpectedDefault}

\* The records parse_log can emit: file, scan_cycle and rssi_dbm are there,
\* each other field is there or not.  rx_unix_ms is read nowhere after
\* parse_log and is left out.
SessionCounterVals == {5, 6}
SessionTxVals == {0, 990}
SessionDeltaVals == {10}
SessionRssiVals == {-60}
Optional(S) == {None} \cup {Some(v) : v \in S}
WithField(d, k, opt) == IF opt = None THEN d ELSE Put(d, k, opt[1])
EmittedRecord(c, t, dl, rs) ==
    WithField(WithField(WithField(
        [file |-> Basename(LogPath), scan_cycle |-> None, rssi_dbm |-> rs],
        "tx_counter", c), "tx_unix_ms", t), "delta_ms", dl)
EmittedRecords ==
    {EmittedRecord(c, t, dl, rs) :
        c \in Optional(SessionCounterVals), t \in Optional(SessionTxVals),
        dl \in Optional(SessionDeltaVals), rs \in SessionRssiVals}
RecordLists == UNION {[1..n -> EmittedRecords] : n \in 0..MaxRecords}

\* A float: NaN, or the exact quotient num / den (den > 0); rounding is not
\* modelled.
NaN == [nan |-> TRUE]
Quot(a, b) == [nan |-> FALSE, num |-> a, den |-> b]
Float(x) == Quot(x, 1)
IsNaN(x) == x.nan

\* Python's truth value of an optional integer: None and 0 are false.
TruthyInt(o) == o # None /\ o[1] # 0

\* r.get(k)
Get(r, k) == IF k \in DOMAIN r THEN Some(r[k]) ELSE None

\* key=lambda r: r.get("tx_unix_ms", 0)
SortKey(r) == IF "tx_unix_ms" \in DOMAIN r THEN r["tx_unix_ms"] ELSE 0

\* sorted(rs, key=...): stable, ascending.
RECURSIVE Sorted(_)
Sorted(rs) ==
    IF rs = <<>> THEN <<>>
    ELSE LET t == Sorted(SubSeq(rs, 1, Len(rs) - 1))
             x == rs[Len(rs)]
             n == Cardinality({i \in 1..Len(t) : SortKey(t[i]) <= SortKey(x)})
         IN  SubSeq(t, 1, n) \o <<x>> \o SubSeq(t, n + 1, Len(t))

\* [r[k] for r in rs if k in r]
Present(rs, k) ==
    LET has == SelectSeq(rs, LAMBDA r : k \in DOMAIN r)
    IN  [i \in 1..Len(has) |-> has[i][k]]

\* [r[k] for r in rs]: KeyError when a record has no k.
HasAll(rs, k) == \A i \in 1..Len(rs) : k \in DOMAIN rs[i]
Column(rs, k) == [i \in 1..Len(rs) |-> rs[i][k]]

RECURSIVE Sum(_)
Sum(vals) == IF vals = <<>> THEN 0 ELSE Head(vals) + Sum(Tail(vals))
Elems(vals) == {vals[i] : i \in 1..Len(vals)}
MinOf(vals) == CHOOSE m \in Elems(vals) : \A v \in Elems(vals) : m <= v
MaxOf(vals) == CHOOSE m \in Elems(vals) : \A v \in Elems(vals) : m >= v

\* sum(v) / len(v) if v else nan; min(v) if v else None; max likewise.
MeanOrNaN(vals) == IF vals # <<>> THEN Quot(Sum(vals), Len(vals)) ELSE NaN
MinOrNone(vals) == IF vals # <<>> THEN Some(MinOf(vals)) ELSE None
MaxOrNone(vals) == IF vals # <<>> THEN Some(MaxOf(vals)) ELSE None

\* loss_count = max(expected_count - n, 0)
LossCount(expected, n) == IF expected - n > 0 THEN expected - n ELSE 0

\* loss_pct = (loss_count / expected_count * 100.0) if expected_count > 0
\* else nan
LossPct(expected, loss_count) ==
    IF expected > 0 THEN Quot(loss_count * 100, expected) ELSE NaN

\* duration_s = (last_tx - first_tx) / 1000.0 if first_tx and last_tx else nan
Duration(first_tx, last_tx) ==
    IF TruthyInt(first_tx) /\ TruthyInt(last_tx)
      THEN Quot(last_tx[1] - first_tx[1], 1000)
      ELSE NaN

\* label=base: the file name without its extension.
Label == Splitext(Basename(LogPath))[1]

\* "if not records": what summarize_records prints and returns.
EmptyResult(label, expected) ==
    [label |-> label, empty |-> TRUE, n |-> 0, mean_rssi |-> NaN,
     loss_count |-> expected, loss_pct |-> Float(100)]

\* analyze_ble_logs.py, "if not records": the label is printed, nothing is
\* returned.
EmptyResultSingle(label) == [label |-> label, empty |-> TRUE]

\* counters[0] and counters[-1]: IndexError when no record has a counter.
HasCounter(rs) == Present(rs, "tx_counter") # <<>>

\* What summarize_records prints and returns for a non-empty list, when it
\* raises nothing.
Metrics(rs, label, expected) ==
    LET records_sorted == Sorted(rs)
        rssi_vals == Present(records_sorted, "rssi_dbm")
        delta_vals == Present(records_sorted, "delta_ms")
        counters == Present(records_sorted, "tx_counter")
        n == Len(records_sorted)
        loss_count == LossCount(expected, n)
    IN  [label |-> label, empty |-> FALSE, n |-> n,
         mean_rssi |-> MeanOrNaN(rssi_vals),
         min_rssi |-> MinOrNone(rssi_vals),
         max_rssi |-> MaxOrNone(rssi_vals),
         mean_delta |-> MeanOrNaN(delta_vals),
         min_delta |-> MinOrNone(delta_vals),
         max_delta |-> MaxOrNone(delta_vals),
         first_counter |-> counters[1],
         last_counter |-> counters[Len(counters)],
         loss_count |-> loss_count,
         loss_pct |-> LossPct(expected, loss_count),
         duration_s |-> Duration(Get(records_sorted[1], "tx_unix_ms"),
                                 Get(records_sorted[n], "tx_unix_ms"))]

\* analyze_ble_logs.py: the same figures, printed only, with
\* expected_span = (last_counter - first_counter) & 0xFFFF computed on the way.
MetricsSingle(rs, label) ==
    LET m == Metrics(rs, label, ExpectedSingle)
    IN  Put(m, "expected_span", (m.last_counter - m.first_counter) % CounterMask)

Scripts == {"combine", "single"}

\* main has parsed one file and goes on to summarize it.
InitSession ==
    /\ pc = "done"
    /\ scan_cycle = None
    /\ current = None
    /\ records \in RecordLists
    /\ nlines = 0
    /\ nblocks = 0
    /\ cur_h = NoHistory
    /\ rec_h = <<>>
    /\ line = "eof"
    /\ csv_pc = "done"
    /\ csv_current = None
    /\ csv_records = <<>>
    /\ csv_blk = 0
    /\ csv_rec_blk = <<>>
    /\ script \in Scripts
    /\ expected_count \in (IF script = "combine" THEN ExpectedVals
                                                 ELSE {ExpectedSingle})
    /\ apc = "summarize"
    /\ err = ""
    /\ metrics = None
    /\ plot_xy = None
    /\ all_line_data = <<>>
    /\ all_hist_data = <<>>
    /\ all_mean_data = <<>>
    /\ all_loss_data = <<>>
    /\ ViewsIdle
    /\ LiveIdle

\* An exception leaves main.
Raise(e) ==
    /\ apc' = "error"
    /\ err' = e

\* Summarize that sorts the list it is given in place (records.sort(...)).
Summarize_SortsInPlace ==
    /\ apc = "summarize"
    /\ records' = Sorted(records)
    /\ IF records = <<>>
         THEN /\ metrics' = Some(IF script = "combine"
                                   THEN EmptyResult(Label, expected_count)
                                   ELSE EmptyResultSingle(Label))
              /\ apc' = "plots"
              /\ UNCHANGED err
         ELSE IF HasCounter(records)
                THEN /\ metrics' = Some(IF script = "combine"
                                          THEN Metrics(records, Label, expected_count)
                                          ELSE MetricsSingle(records, Label))
                     /\ apc' = "plots"
                     /\ UNCHANGED err
                ELSE /\ Raise("IndexError")
                     /\ UNCHANGED metrics
    /\ UNCHANGED <<view_vars, live_vars>>
    /\ UNCHANGED <<parser_vars, script, expected_count, plot_xy,
                   all_line_data, all_hist_data, all_mean_data, all_loss_data>>

\* summarize_records(records, label=base, expected_count=expected_count), and
\* summarize_records(records, label=base) of analyze_ble_logs.py
Summarize ==
    /\ apc = "summarize"
    /\ IF records = <<>>
         THEN /\ metrics' = Some(IF script = "combine"
                                   THEN EmptyResult(Label, expected_count)
                                   ELSE EmptyResultSingle(Label))
              /\ apc' = "plots"
              /\ UNCHANGED err
         ELSE IF HasCounter(records)
                THEN /\ metrics' = Some(IF script = "combine"
                                          THEN Metrics(records, Label, expected_count)
                                          ELSE MetricsSingle(records, Label))
                     /\ apc' = "plots"
                     /\ UNCHANGED err
                ELSE /\ Raise("IndexError")
                     /\ UNCHANGED metrics
    /\ UNCHANGED <<view_vars, live_vars>>
    /\ UNCHANGED <<parser_vars, records, script, expected_count, plot_xy,
                   all_line_data, all_hist_data, all_mean_data, all_loss_data>>

\* After the per-file plots analyze_ble_logs.py is done with the file.
AfterPlots == IF script = "combine" THEN "series" ELSE "finished"

\* plot_rssi_vs_counter and plot_rssi_hist, up to the lists they hand to the
\* plotting library.
PerFilePlots ==
    /\ apc = "plots"
    /\ IF records = <<>>
         THEN /\ apc' = AfterPlots
              /\ UNCHANGED <<err, plot_xy>>
         ELSE IF HasAll(Sorted(records), "tx_counter")
                THEN /\ plot_xy' = Some([x |-> Column(Sorted(records), "tx_counter"),
                                         y |-> Column(Sorted(records), "rssi_dbm"),
                                         hist |-> Column(records, "rssi_dbm")])
                     /\ apc' = AfterPlots
                     /\ UNCHANGED err
                ELSE /\ Raise("KeyError")
                     /\ UNCHANGED plot_xy
    /\ UNCHANGED <<view_vars, live_vars>>
    /\ UNCHANGED <<parser_vars, records, script, expected_count, metrics,
                   all_line_data, all_hist_data, all_mean_data, all_loss_data>>

\* "if records:" in main: the file's entries of the four cross-file lists.
BuildSeries ==
    /\ apc = "series"
    /\ IF records = <<>>
         THEN /\ apc' = "finished"
              /\ UNCHANGED <<err, all_line_data, all_hist_data, all_mean_data,
                             all_loss_data>>
         ELSE IF HasAll(Sorted(records), "tx_counter")
                THEN LET rec_sorted == Sorted(records)
                         xs == Column(rec_sorted, "tx_counter")
                         ys == Column(rec_sorted, "rssi_dbm")
                         rssi_vals == Present(records, "rssi_dbm")
                         m == metrics[1]
                     IN  /\ all_line_data' = Append(all_line_data,
                                <<Label, m.n, xs, ys>>)
                         /\ all_hist_data' =
                                IF rssi_vals # <<>>
                                  THEN Append(all_hist_data, <<Label, rssi_vals>>)
                                  ELSE all_hist_data
                         /\ all_mean_data' =
                                IF ~IsNaN(m.mean_rssi)
                                  THEN Append(all_mean_data,
                                              <<Label, m.n, m.mean_rssi>>)
                                  ELSE all_mean_data
                         /\ all_loss_data' = Append(all_loss_data,
                                <<Label, m.loss_count, m.loss_pct>>)
                         /\ apc' = "finished"
                         /\ UNCHANGED err
                ELSE /\ Raise("KeyError")
                     /\ UNCHANGED <<all_line_data, all_hist_data, all_mean_data,
                                    all_loss_data>>
    /\ UNCHANGED <<view_vars, live_vars>>
    /\ UNCHANGED <<parser_vars, records, script, expected_count, metrics, plot_xy>>

NextSession ==
    \/ Summarize
    \/ PerFilePlots
    \/ BuildSeries

SpecSession == InitSession /\ [][NextSession]_vars

\* ------------------------------------------------------ live_rssi_plot.py

\* Calls of readline that return a line or raise, in one run; any number of
\* calls time out.
MaxFed == 4

\* Values of --max-points.
MaxPointsVals == {0, 1, 3}

\* The n-th counter and the n-th RSSI the device prints.  serial_reader
\* stores the values and never compares them, so one value per position is
\* drawn, each different from the others: the histories can then tell which
\* line a stored value came from.
CounterAt(n) == n
RssiAt(n) == (0 - 45) - 5 * n

\* The state of the log analysis while live_rssi_plot.py runs: not running.
AnalysisIdle ==
    /\ pc = "done"
    /\ scan_cycle = None
    /\ current = None
    /\ records = <<>>
    /\ nlines = 0
    /\ nblocks = 0
    /\ cur_h = NoHistory
    /\ rec_h = <<>>
    /\ line = "eof"
    /\ csv_pc = "done"
    /\ csv_current = None
    /\ csv_records = <<>>
    /\ csv_blk = 0
    /\ csv_rec_blk = <<>>
    /\ script = "combine"
    /\ apc = "idle"
    /\ err = ""
    /\ metrics = None
    /\ plot_xy = None
    /\ all_hist_data = <<>>
    /\ all_mean_data = <<>>

\* main up to t.start(), with --max-points one of points: the lock, the two
\* empty deques, the flag, the thread.
InitLiveWith(points) ==
    /\ AnalysisIdle
    /\ expected_count = ExpectedDefault
    /\ all_line_data = <<>>
    /\ all_loss_data = <<>>
    /\ ViewsIdle
    /\ max_points \in points
    /\ ser = "unopened"
    /\ stop_flag = FALSE
    /\ data_lock = "free"
    /\ live_counters = <<>>
    /\ live_rssis = <<>>
    /\ current_counter = None
    /\ current_rssi = None
    /\ reader_pc = "open"
    /\ main_pc = "acquire"
    /\ snap_x = <<>>
    /\ snap_y = <<>>
    /\ fed = 0
    /\ errors = 0
    /\ fed_c = 0
    /\ fed_r = 0
    /\ seen_c = None
    /\ seen_r = None
    /\ appended = <<>>
    /\ snap_at = 0
    /\ closes = 0
    /\ reads_after_stop = 0

InitLive == InitLiveWith(MaxPointsVals)

not_live == <<parser_vars, records, main_vars, view_vars>>
main_locals == <<main_pc, snap_x, snap_y, snap_at>>
deques == <<live_counters, live_rssis, appended>>
reader_locals == <<current_counter, current_rssi, seen_c, seen_r>>
port == <<ser, closes, fed, errors, fed_c, fed_r, reads_after_stop>>

\* A step of serial_reader from place a to place b.
Reader(a, b) ==
    /\ reader_pc = a
    /\ reader_pc' = b
    /\ UNCHANGED <<not_live, max_points, main_locals>>

\* serial.Serial(port, baudrate=baud, timeout=1.0) returns.
OpenSerial ==
    /\ Reader("open", "check")
    /\ ser' = "open"
    /\ UNCHANGED <<closes, fed, errors, fed_c, fed_r, reads_after_stop, stop_flag,
                   data_lock, deques, reader_locals>>

\* It raises: the flag is set and serial_reader returns.
OpenSerialFails ==
    /\ Reader("open", "exited")
    /\ ser' = "failed"
    /\ stop_flag' = TRUE
    /\ UNCHANGED <<closes, fed, errors, fed_c, fed_r, reads_after_stop, data_lock,
                   deques, reader_locals>>

\* CheckStop that does not look at the flag.
CheckStop_IgnoresFlag ==
    /\ Reader("check", "call")
    /\ UNCHANGED <<port, stop_flag, data_lock, deques, reader_locals>>

\* while not stop_flag["stop"]
CheckStop ==
    /\ \/ stop_flag /\ Reader("check", "close")
       \/ ~stop_flag /\ Reader("check", "call")
    /\ UNCHANGED <<port, stop_flag, data_lock, deques, reader_locals>>

\* ser.readline() is called.
CallReadline ==
    /\ Reader("call", "read")
    /\ reads_after_stop' = reads_after_stop + (IF stop_flag THEN 1 ELSE 0)
    /\ UNCHANGED <<ser, closes, fed, errors, fed_c, fed_r, stop_flag, data_lock,
                   deques, reader_locals>>

\* readline times out: "if not line_bytes: continue".
ReadEmpty ==
    /\ Reader("read", "check")
    /\ UNCHANGED <<port, stop_flag, data_lock, deques, reader_locals>>

\* ReadRaises with no handler: the exception ends serial_reader.
ReadRaises_Exits ==
    /\ fed < MaxFed
    /\ Reader("read", "exited")
    /\ fed' = fed + 1
    /\ errors' = errors + 1
    /\ UNCHANGED <<ser, closes, fed_c, fed_r, reads_after_stop, stop_flag,
                   data_lock, deques, reader_locals>>

\* readline raises: the handler prints a warning and goes to sleep.
ReadRaises ==
    /\ fed < MaxFed
    /\ Reader("read", "backoff")
    /\ fed' = fed + 1
    /\ errors' = errors + 1
    /\ UNCHANGED <<ser, closes, fed_c, fed_r, reads_after_stop, stop_flag,
                   data_lock, deques, reader_locals>>

\* What the RSSI pattern finds on a line: nothing, a number, or a token such
\* as "-" that [-0-9]+ matches and int() refuses.
RssiKinds == {"none", "ok", "bad"}

\* readline returns a line: decode, the two searches, and the test of line 43.
\* The counter is stored before the RSSI is converted, so a ValueError of the
\* RSSI leaves the counter of the same line in current_counter.
HandleLine(has_c, rk) ==
    /\ fed < MaxFed
    /\ fed' = fed + 1
    /\ fed_c' = fed_c + (IF has_c THEN 1 ELSE 0)
    /\ fed_r' = fed_r + (IF rk = "ok" THEN 1 ELSE 0)
    /\ errors' = errors + (IF rk = "bad" THEN 1 ELSE 0)
    /\ LET c == IF has_c THEN Some(CounterAt(fed_c + 1)) ELSE current_counter
           r == IF rk = "ok" THEN Some(RssiAt(fed_r + 1)) ELSE current_rssi
       IN  /\ current_counter' = c
           /\ current_rssi' = r
           /\ IF rk = "bad"
                THEN Reader("read", "backoff")
                ELSE IF c # None /\ r # None
                       THEN Reader("read", "acquire")
                       ELSE Reader("read", "check")
    /\ seen_c' = (IF has_c THEN Some(CounterAt(fed_c + 1)) ELSE seen_c)
    /\ seen_r' = (IF rk = "ok" THEN Some(RssiAt(fed_r + 1)) ELSE seen_r)
    /\ UNCHANGED <<ser, closes, reads_after_stop, stop_flag, data_lock, deques>>

\* time.sleep(0.1) of the handler returns: back to the while test.
Backoff ==
    /\ Reader("backoff", "check")
    /\ UNCHANGED <<port, stop_flag, data_lock, deques, reader_locals>>

\* with data_lock: serial_reader gets the lock.
AcquireReader ==
    /\ data_lock = "free"
    /\ Reader("acquire", "append_c")
    /\ data_lock' = "reader"
    /\ UNCHANGED <<port, stop_flag, deques, reader_locals>>

\* counters.append(current_counter)
AppendCounter ==
    /\ Reader("append_c", "append_r")
    /\ live_counters' = Append(live_counters, current_counter[1])
    /\ UNCHANGED <<live_rssis, appended, port, stop_flag, data_lock,
                   reader_locals>>

\* AppendRssi without the eviction.
AppendRssi_NeverEvicts ==
    /\ Reader("append_r", "release")
    /\ live_rssis' = Append(live_rssis, current_rssi[1])
    /\ appended' = Append(appended, <<current_counter[1], current_rssi[1]>>)
    /\ seen_c' = None
    /\ seen_r' = None
    /\ UNCHANGED <<live_counters, current_counter, current_rssi, port,
                   stop_flag, data_lock>>

\* rssis.append(current_rssi), and the test len(counters) > max_points.
AppendRssi ==
    /\ IF Len(live_counters) > max_points
         THEN Reader("append_r", "pop_c")
         ELSE Reader("append_r", "release")
    /\ live_rssis' = Append(live_rssis, current_rssi[1])
    /\ appended' = Append(appended, <<current_counter[1], current_rssi[1]>>)
    /\ seen_c' = None
    /\ seen_r' = None
    /\ UNCHANGED <<live_counters, current_counter, current_rssi, port,
                   stop_flag, data_lock>>

\* counters.popleft()
PopCounter ==
    /\ Reader("pop_c", "pop_r")
    /\ live_counters' = Tail(live_counters)
    /\ UNCHANGED <<live_rssis, appended, port, stop_flag, data_lock,
                   reader_locals>>

\* rssis.popleft()
PopRssi ==
    /\ Reader("pop_r", "release")
    /\ live_rssis' = Tail(live_rssis)
    /\ UNCHANGED <<live_counters, appended, port, stop_flag, data_lock,
                   reader_locals>>

\* The with block ends, and the two pending values are set to None.
ReleaseReader ==
    /\ Reader("release", "check")
    /\ data_lock' = "free"
    /\ current_counter' = None
    /\ current_rssi' = None
    /\ UNCHANGED <<seen_c, seen_r, port, stop_flag, deques>>

\* ser.close(), after the loop.
CloseSerial ==
    /\ Reader("close", "exited")
    /\ ser' = "closed"
    /\ closes' = closes + 1
    /\ UNCHANGED <<fed, errors, fed_c, fed_r, reads_after_stop, stop_flag,
                   data_lock, deques, reader_locals>>

\* A step of main from place a to place b.
Main(a, b) ==
    /\ main_pc = a
    /\ main_pc' = b
    /\ UNCHANGED <<not_live, max_points, port, deques, reader_locals>>

\* AcquireMain that does not wait for the lock.
AcquireMain_NoLock ==
    /\ Main("acquire", "copy_x")
    /\ data_lock' = "main"
    /\ snap_at' = Len(appended)
    /\ UNCHANGED <<snap_x, snap_y, stop_flag, reader_pc>>

\* with data_lock: main gets the lock.
AcquireMain ==
    /\ data_lock = "free"
    /\ Main("acquire", "copy_x")
    /\ data_lock' = "main"
    /\ snap_at' = Len(appended)
    /\ UNCHANGED <<snap_x, snap_y, stop_flag, reader_pc>>

\* x = list(counters)
CopyX ==
    /\ Main("copy_x", "copy_y")
    /\ snap_x' = live_counters
    /\ UNCHANGED <<snap_y, snap_at, stop_flag, data_lock, reader_pc>>

\* CopyY that keeps the lock while main draws.
CopyY_KeepsLock ==
    /\ Main("copy_y", "render")
    /\ snap_y' = live_rssis
    /\ UNCHANGED <<snap_x, snap_at, stop_flag, data_lock, reader_pc>>

\* y = list(rssis), and the with block ends.
CopyY ==
    /\ Main("copy_y", "render")
    /\ snap_y' = live_rssis
    /\ data_lock' = "free"
    /\ UNCHANGED <<snap_x, snap_at, stop_flag, reader_pc>>

\* line.set_data, the limits, fig.canvas.draw() and flush_events().
Render ==
    /\ Main("render", "sleep")
    /\ UNCHANGED <<snap_x, snap_y, snap_at, stop_flag, data_lock, reader_pc>>

\* time.sleep(0.1) returns: the next round of "while True".
Sleep ==
    /\ Main("sleep", "acquire")
    /\ UNCHANGED <<snap_x, snap_y, snap_at, stop_flag, data_lock, reader_pc>>

\* Where main is inside "try".
InTry == {"acquire", "copy_x", "copy_y", "render", "sleep"}

\* Ctrl+C: KeyboardInterrupt is raised in main wherever it is inside "try";
\* a with block it leaves releases the lock.
KeyboardInterrupt ==
    /\ main_pc \in InTry
    /\ Main(main_pc, "finally")
    /\ data_lock' = (IF data_lock = "main" THEN "free" ELSE data_lock)
    /\ UNCHANGED <<snap_x, snap_y, snap_at, stop_flag, reader_pc>>

\* finally: stop_flag["stop"] = True
SetStop ==
    /\ Main("finally", "join")
    /\ stop_flag' = TRUE
    /\ UNCHANGED <<snap_x, snap_y, snap_at, data_lock, reader_pc>>

\* t.join(timeout=2.0) returns because serial_reader has returned.
JoinReturns ==
    /\ reader_pc = "exited"
    /\ Main("join", "cleanup")
    /\ UNCHANGED <<snap_x, snap_y, snap_at, stop_flag, data_lock, reader_pc>>

\* t.join(timeout=2.0) returns because the two seconds are over.
JoinTimesOut ==
    /\ reader_pc # "exited"
    /\ Main("join", "cleanup")
    /\ UNCHANGED <<snap_x, snap_y, snap_at, stop_flag, data_lock, reader_pc>>

\* plt.ioff(), plt.close(fig), main returns and the process ends; the thread
\* is a daemon thread (daemon=True), so it ends with the process wherever
\* it is.
ProcessExit ==
    /\ Main("cleanup", "exited")
    /\ reader_pc' = (IF reader_pc = "exited" THEN "exited" ELSE "killed")
    /\ UNCHANGED <<snap_x, snap_y, snap_at, stop_flag, data_lock>>

NextReader ==
    \/ OpenSerial
    \/ OpenSerialFails
    \/ CheckStop
    \/ CallReadline
    \/ ReadEmpty
    \/ ReadRaises
    \/ \E has_c \in BOOLEAN : \E rk \in RssiKinds : HandleLine(has_c, rk)
    \/ Backoff
    \/ AcquireReader
    \/ AppendCounter
    \/ AppendRssi
    \/ PopCounter
    \/ PopRssi
    \/ ReleaseReader
    \/ CloseSerial

NextMain ==
    \/ AcquireMain
    \/ CopyX
    \/ CopyY
    \/ Render
    \/ Sleep
    \/ SetStop
    \/ JoinReturns
    \/ JoinTimesOut
    \/ ProcessExit

NextLive ==
    \/ NextReader
    \/ NextMain
    \/ KeyboardInterrupt

SpecLive == InitLive /\ [][NextLive]_vars

\* --max-points of the runs in which the progress of serial_reader is
\* checked; the loop's way out does not depend on it.
ProgressPoints == 1

InitLiveProgress == InitLiveWith({ProgressPoints})

\* The thread of serial_reader keeps running while it can take a step: a call
\* of readline returns (the port was opened with timeout=1.0), a sleep ends.
\* Nothing is assumed of main, which may wait in join as long as it likes.
SpecLiveReaderFair ==
    InitLiveProgress /\ [][NextLive]_vars /\ WF_vars(NextReader)

\* Both threads keep running; nobody has to press Ctrl+C.
SpecLiveFair == SpecLive /\ WF_vars(NextReader) /\ WF_vars(NextMain)

\* -------------------- the combined views of analyze_ble_logs_combine.py

\* Log files given to one run of main.
MaxSessions == 3

\* gap before next chunk
GapUnits == 5

\* base of the i-th log file.
ViewLabel(i) == <<"file", i>>

\* The n records of a log file, later records with earlier timestamps, so that
\* main's sort reverses them.
ViewRecords(n) ==
    [k \in 1..n |->
        EmittedRecord(Some(k), Some(990 + n - k), None, (0 - 60) - k)]

\* What main's loop over the files appends to all_line_data and to
\* all_loss_data for the i-th file, with records rs (not empty, each with a
\* counter).
LineEntry(i, rs) ==
    LET rec_sorted == Sorted(rs)
    IN  <<ViewLabel(i), Len(rs), Column(rec_sorted, "tx_counter"),
          Column(rec_sorted, "rssi_dbm")>>
LossEntry(i, rs, expected) ==
    LET loss_count == LossCount(expected, Len(rs))
    IN  <<ViewLabel(i), loss_count, LossPct(expected, loss_count)>>

\* The sizes of the files of one run.
SessionSizes == UNION {[1..m -> 1..MaxRecords] : m \in 0..MaxSessions}

\* main after its loop over the files.
InitViews ==
    /\ AnalysisIdle
    /\ LiveIdle
    /\ expected_count \in ExpectedVals
    /\ \E sizes \in SessionSizes :
        /\ all_line_data =
             [i \in 1..Len(sizes) |-> LineEntry(i, ViewRecords(sizes[i]))]
        /\ all_loss_data =
             [i \in 1..Len(sizes) |->
                LossEntry(i, ViewRecords(sizes[i]), expected_count)]
    /\ ViewsIdle

not_views == <<parser_vars, records, main_vars, live_vars>>

\* "if len(all_line_data) > 1": plot_combined_rssi_vs_counter is called, and
\* sets current_offset = 0.
CombinedStart ==
    /\ view_pc = "idle"
    /\ view_pc' = (IF Len(all_line_data) > 1 THEN "combined" ELSE "bars")
    /\ current_offset' = 0
    /\ UNCHANGED <<combined, bars, not_views>>

\* One round of its loop over all_sequences.
CombinedSequence ==
    /\ view_pc = "combined"
    /\ Len(combined) < Len(all_line_data)
    /\ LET seq == all_line_data[Len(combined) + 1]
           xs == [i \in 1..Len(seq[3]) |-> current_offset + (i - 1)]
       IN  /\ combined' = Append(combined, <<seq[1], xs, seq[4]>>)
           /\ current_offset' = (IF xs # <<>> THEN xs[Len(xs)] + GapUnits
                                              ELSE current_offset)
    /\ UNCHANGED <<view_pc, bars, not_views>>

\* The loop is over: the figure is saved.
CombinedDone ==
    /\ view_pc = "combined"
    /\ Len(combined) = Len(all_line_data)
    /\ view_pc' = "bars"
    /\ UNCHANGED <<current_offset, combined, bars, not_views>>

\* Complement taken of a fraction of 1, not of a percentage.
Complement_OfFraction(lp) ==
    IF IsNaN(lp) THEN NaN ELSE Quot(lp.den - lp.num, lp.den)

\* 100.0 - lp
Complement(lp) ==
    IF IsNaN(lp) THEN NaN ELSE Quot(100 * lp.den - lp.num, lp.den)

\* "if all_loss_data:": plot_loss_and_receive_bars builds its five lists.
LossBars ==
    /\ view_pc = "bars"
    /\ view_pc' = "finished"
    /\ bars' = (IF all_loss_data = <<>> THEN None
                ELSE Some([i \in 1..Len(all_loss_data) |->
                        [label |-> all_loss_data[i][1],
                         loss_count |-> all_loss_data[i][2],
                         loss_pct |-> all_loss_data[i][3],
                         recv_count |-> expected_count - all_loss_data[i][2],
                         recv_pct |-> Complement(all_loss_data[i][3])]]))
    /\ UNCHANGED <<current_offset, combined, not_views>>

NextViews ==
    \/ CombinedStart
    \/ CombinedSequence
    \/ CombinedDone
    \/ LossBars

SpecViews == InitViews /\ [][NextViews]_vars

\* ------------------------------------------------------------------ claims

\* A record is open and has its RSSI.
HasRssi(c) == c # None /\ "rssi_dbm" \in DOMAIN c[1]

\* Record r carries exactly the fields of dict d, with d's values.
SameFields(r, d) ==
    \A k \in FieldKeys :
        /\ k \in DOMAIN r <=> k \in DOMAIN d
        /\ k \in DOMAIN d => r[k] = d[k]

\* This step appends one record, with the fields of the open record.
EmitsOpenRecord ==
    /\ Len(records') = Len(records) + 1
    /\ SubSeq(records', 1, Len(records)) = records
    /\ SameFields(records'[Len(records')], current[1])

\* The numbers the field lines of key k carried in the block of emitted record i.
SeenVals(i, k) == {v \in FieldVals(k) : <<k, v>> \in rec_h[i].seen}

\* C1: every emitted record has rssi_dbm, and comes from a block in which an
\* RSSI line was read, whatever ended the block (a blank line, the next
\* block-start marker, the end of input).
C1_Completeness ==
    /\ Len(rec_h) = Len(records)
    /\ \A i \in 1..Len(records) :
        /\ "rssi_dbm" \in DOMAIN records[i]
        /\ SeenVals(i, "rssi_dbm") # {}

\* Records emitted in each of the three ways, and one block dropped.
C1_Witness ==
    /\ pc = "done"
    /\ {rec_h[i].by : i \in 1..Len(rec_h)} = {"start", "blank", "eof"}
    /\ nblocks > Len(records)

\* C2: a block-start marker emits the open record if it is complete, drops it
\* if it is not, and opens a new empty record; emitted records are in the
\* order of their blocks.  The same holds of ble_logs_to_csv.py's copy.
C2_BlockStartRule ==
    /\ [][line' = "start" /\ nlines' = nlines + 1 =>
            /\ current' # None
            /\ DOMAIN current'[1] \cap FieldKeys = {}
            /\ IF HasRssi(current) THEN EmitsOpenRecord ELSE records' = records]_vars
    /\ [](\A i, j \in 1..Len(rec_h) : i < j => rec_h[i].blk < rec_h[j].blk)
    /\ [][line' = "start" /\ nlines' = nlines + 1 /\ csv_pc = "parsing" =>
            /\ csv_current' = Some(EmptyDict)
            /\ IF HasRssi(csv_current)
                 THEN /\ Len(csv_records') = Len(csv_records) + 1
                      /\ SubSeq(csv_records', 1, Len(csv_records)) = csv_records
                      /\ \A k \in DOMAIN csv_current[1] :
                            /\ k \in DOMAIN csv_records'[Len(csv_records')]
                            /\ csv_records'[Len(csv_records')][k] = csv_current[1][k]
                 ELSE csv_records' = csv_records]_vars
    /\ [](\A i, j \in 1..Len(csv_rec_blk) : i < j => csv_rec_blk[i] < csv_rec_blk[j])

\* Two block-start markers in a row dropped the first block; a later block
\* was emitted by a block-start marker.
C2_Witness ==
    /\ line = "start"
    /\ nblocks = 3
    /\ Len(records) = 1
    /\ rec_h[1].blk = 2
    /\ rec_h[1].by = "start"
    /\ csv_rec_blk = <<2>>

\* C3: a blank line emits a complete open record and clears it; while no
\* record is open every line but a block-start marker leaves the emitted
\* list and the (absent) open record alone, and every line but the two
\* markers leaves the whole parser state alone; a record emitted by a blank
\* line carries a field exactly when its block had a line of that field, with
\* a value that line carried; one block ended by a blank line gives one record.
C3_BlankLineRule ==
    /\ [][line' = "blank" /\ nlines' = nlines + 1 /\ HasRssi(current) =>
            EmitsOpenRecord /\ current' = None]_vars
    /\ [][current = None /\ nlines' = nlines + 1 /\ line' # "start" =>
            /\ current' = None
            /\ records' = records
            /\ line' # "scan" => scan_cycle' = scan_cycle /\ pc' = pc]_vars
    /\ [](\A i \in 1..Len(rec_h) : rec_h[i].by = "blank" =>
            \A k \in FieldKeys :
                /\ k \in DOMAIN records[i] <=> SeenVals(i, k) # {}
                /\ k \in DOMAIN records[i] => records[i][k] \in SeenVals(i, k))
    /\ [](nblocks = 1 /\ Len(rec_h) >= 1 /\ rec_h[1].by = "blank" =>
            Len(records) = 1 /\ current = None)

\* Scenario 1: the block-start marker, the five field lines and a blank line.
C3_Witness ==
    /\ nlines = 7
    /\ nblocks = 1
    /\ line = "blank"
    /\ current = None
    /\ Len(records) = 1
    /\ rec_h[1].seen = {<<"rx_unix_ms", 1000>>, <<"tx_counter", 5>>,
                        <<"tx_unix_ms", 990>>, <<"delta_ms", 10>>,
                        <<"rssi_dbm", -60>>}
    /\ records[1]["rx_unix_ms"] = 1000
    /\ records[1]["tx_counter"] = 5
    /\ records[1]["tx_unix_ms"] = 990
    /\ records[1]["delta_ms"] = 10
    /\ records[1]["rssi_dbm"] = -60

\* C4: at the end of input a complete open record is emitted, once and last,
\* an incomplete one is dropped, and nothing is emitted when no record is open
\* (a blank line emitted it): no block is emitted twice.
C4_FlushOnClose ==
    /\ [][pc = "parsing" /\ pc' = "done" =>
            IF HasRssi(current) THEN EmitsOpenRecord ELSE records' = records]_vars
    /\ [](\A i, j \in 1..Len(rec_h) : i # j => rec_h[i].blk # rec_h[j].blk)
    /\ [](\A i \in 1..Len(rec_h) :
            rec_h[i].by = "eof" => i = Len(rec_h) /\ pc = "done")

\* A record emitted by a blank line, then one emitted at the end of input.
C4_Witness ==
    /\ pc = "done"
    /\ Len(rec_h) = 2
    /\ rec_h[1].by = "blank"
    /\ rec_h[2].by = "eof"

\* C5 (as claimed): every emitted record's scan_cycle is the scan cycle of
\* the moment its block-start marker was read.
C5_ScanCycleOfBlockStart ==
    \A i \in 1..Len(records) : records[i]["scan_cycle"] = rec_h[i].cycle

\* The timestamp a record sorts by: its tx_unix_ms, zero when it has none.
ClaimedTime(r) == IF "tx_unix_ms" \in DOMAIN r THEN r["tx_unix_ms"] ELSE 0

\* The float q is the quotient a / b.
RatEq(q, a, b) == ~IsNaN(q) /\ q.num * b = a * q.den

\* C7 (as claimed): for a non-empty list the reported first counter is the
\* tx_counter of a record with the least timestamp, and the reported last
\* counter the tx_counter of a record with the greatest.
C7_FirstLastByTxTime ==
    (records # <<>> /\ metrics # None) =>
        LET m == metrics[1]
            times == {ClaimedTime(records[i]) : i \in 1..Len(records)}
        IN  /\ \E i \in 1..Len(records) :
                /\ \A t \in times : ClaimedTime(records[i]) <= t
                /\ Get(records[i], "tx_counter") = Some(m.first_counter)
            /\ \E i \in 1..Len(records) :
                /\ \A t \in times : ClaimedTime(records[i]) >= t
                /\ Get(records[i], "tx_counter") = Some(m.last_counter)

\* C8 (as claimed): for every expected_count >= 0 and every n >= 0 records,
\* the loss count analyze_ble_logs_combine.py reports is
\* max(expected_count - n, 0), the loss percentage is
\* loss count / expected_count * 100 when expected_count > 0 and NaN when
\* expected_count = 0; 200 expected and 150 received give 50 and 25.
C8_LossEstimate ==
    /\ LossCount(200, 150) = 50
    /\ RatEq(LossPct(200, LossCount(200, 150)), 25, 1)
    /\ (script = "combine" /\ metrics # None) =>
        LET m == metrics[1]
            n == Len(records)
        IN  /\ m.loss_count = (IF expected_count - n > 0 THEN expected_count - n ELSE 0)
            /\ m.loss_count >= 0
            /\ expected_count > 0 => RatEq(m.loss_pct, m.loss_count * 100, expected_count)
            /\ expected_count = 0 => IsNaN(m.loss_pct)

\* C9 (as claimed): for a session with no record, summarize_records raises
\* nothing and reports the session's name with a loss count of expected_count
\* and a loss percentage of 100.
C9_EmptySession ==
    records = <<>> =>
        /\ apc # "error"
        /\ err = ""
        /\ metrics # None =>
            LET m == metrics[1]
            IN  /\ m.empty
                /\ m.label = Label
                /\ "loss_count" \in DOMAIN m
                /\ m.loss_count = expected_count
                /\ RatEq(m.loss_pct, 100, 1)

\* C10 (as claimed): for every list of records parse_log can emit,
\* summarize_records and the building of the per-file series raise nothing.
C10_NoErrorAfterParsing ==
    /\ apc # "error"
    /\ err = ""

\* The last n elements of s, all of s when it has fewer.
Window(s, n) ==
    LET k == IF Len(s) < n THEN Len(s) ELSE n
    IN  SubSeq(s, Len(s) - k + 1, Len(s))

\* The pairs two parallel lists of one length make.
Zip(cs, rs) == [i \in 1..Len(cs) |-> <<cs[i], rs[i]>>]

\* C11: whenever serial_reader does not hold the lock the two deques have one
\* length, at most max_points, and hold the last max_points pairs appended, in
\* the order of their appends; with max_points = 3 the appends (1,-50),
\* (2,-55), (3,-60), (4,-65) leave (2,-55), (3,-60), (4,-65).
C11_LiveBufferBound ==
    data_lock # "reader" =>
        /\ Len(live_counters) = Len(live_rssis)
        /\ Len(live_counters) <= max_points
        /\ Zip(live_counters, live_rssis) = Window(appended, max_points)
        /\ (/\ max_points = 3
            /\ appended = <<<<1, -50>>, <<2, -55>>, <<3, -60>>, <<4, -65>>>>)
              => /\ live_counters = <<2, 3, 4>>
                 /\ live_rssis = <<-55, -60, -65>>

\* Scenario 4 has run, the fourth append has evicted the first pair and the
\* lock is free again.
C11_Witness ==
    /\ max_points = 3
    /\ appended = <<<<1, -50>>, <<2, -55>>, <<3, -60>>, <<4, -65>>>>
    /\ data_lock = "free"
    /\ reader_pc = "check"
    /\ live_counters = <<2, 3, 4>>
    /\ live_rssis = <<-55, -60, -65>>

\* C12: the two lists main draws from have one length and are, pair by pair,
\* the last max_points pairs of the appends made before main took the lock:
\* a contiguous run of the append sequence, nothing twice, nothing out of
\* order, no counter without its RSSI.
C12_SnapshotConsistency ==
    main_pc \in {"render", "sleep"} =>
        /\ Len(snap_x) = Len(snap_y)
        /\ snap_at <= Len(appended)
        /\ Zip(snap_x, snap_y) = Window(SubSeq(appended, 1, snap_at), max_points)

\* main draws the second pair while the buffer, of one place, has moved on to
\* the third; the first pair had been evicted before the snapshot.
C12_Witness ==
    /\ max_points = 1
    /\ main_pc = "render"
    /\ snap_x = <<2>>
    /\ snap_y = <<-55>>
    /\ Len(appended) = 3
    /\ live_counters = <<3>>

\* Where each thread touches the deques.
ReaderCritical == {"append_c", "append_r", "pop_c", "pop_r", "release"}
MainCritical == {"copy_x", "copy_y"}

\* C13: a thread is at a statement that reads or writes the deques only while
\* it holds the lock, and the deques and the snapshot change only then; the
\* two threads are never both at such statements; serial_reader does not hold
\* the lock in readline or in the sleep of its handler, main does not hold it
\* while it draws or sleeps.
C13_LockDiscipline ==
    /\ [](reader_pc \in ReaderCritical => data_lock = "reader")
    /\ [](main_pc \in MainCritical => data_lock = "main")
    /\ [](~(reader_pc \in ReaderCritical /\ main_pc \in MainCritical))
    /\ [](reader_pc \in {"call", "read", "backoff"} => data_lock # "reader")
    /\ [](main_pc \in {"render", "sleep"} => data_lock # "main")
    /\ [][live_counters' # live_counters \/ live_rssis' # live_rssis =>
            data_lock = "reader"]_vars
    /\ [][snap_x' # snap_x \/ snap_y' # snap_y => data_lock = "main"]_vars

\* serial_reader waits for the lock with a pair to append while main copies.
C13_Witness ==
    /\ main_pc = "copy_y"
    /\ reader_pc = "acquire"
    /\ data_lock = "main"
    /\ live_counters # <<>>

\* C14: when the port cannot be opened serial_reader returns at once, having
\* read and appended nothing, the flag is set, and main then leaves its loop
\* and ends without Ctrl+C.
C14_OpenFailureStopsPipeline ==
    /\ [](ser = "failed" =>
            /\ reader_pc = "exited"
            /\ stop_flag
            /\ fed = 0
            /\ appended = <<>>
            /\ closes = 0)
    /\ (ser = "failed") ~> (main_pc = "exited")

\* C15: once main has ended after the port was opened, ser.close() has been
\* called exactly once, and it is never called twice nor before serial_reader
\* has left its loop, whether or not the join timed out.
C15_ClosedExactlyOnce ==
    /\ closes <= 1
    /\ (closes = 1 => reader_pc = "exited" /\ ser = "closed")
    /\ (main_pc = "exited" /\ ser \in {"open", "closed"} => closes = 1)

\* Where serial_reader is inside its while loop.
InLoop == {"check", "call", "read", "acquire", "append_c", "append_r", "pop_c",
           "pop_r", "release", "backoff"}

\* C16: serial_reader goes to a call of readline only from a while test that
\* found the flag clear; once the flag is set it makes at most the one call
\* whose test it had already passed; and, its calls of readline returning, it
\* then leaves the loop.
C16_CooperativeCancellation ==
    /\ [][reader_pc # "call" /\ reader_pc' = "call" =>
            reader_pc = "check" /\ ~stop_flag]_vars
    /\ [][reader_pc # "read" /\ reader_pc' = "read" => reader_pc = "call"]_vars
    /\ [](reads_after_stop <= 1)
    /\ stop_flag ~> (reader_pc \notin InLoop)

\* The flag was set between the while test and the call of readline; the call
\* returned a line that completed a pair, the pair was appended, and the next
\* test ended the loop.
C16_Witness ==
    /\ reads_after_stop = 1
    /\ reader_pc = "exited"
    /\ ser = "closed"
    /\ Len(appended) = 1

\* C17: an exception in readline or in the handling of a line puts
\* serial_reader into the sleep of its handler, with the flag and the deques
\* as they were, the deques of one length and the lock not held; from the
\* sleep it goes back to the while test (or ends with the process).
C17_TransientReadFailure ==
    /\ [][errors' # errors =>
            /\ reader_pc' = "backoff"
            /\ stop_flag' = stop_flag
            /\ live_counters' = live_counters
            /\ live_rssis' = live_rssis
            /\ Len(live_counters') = Len(live_rssis')
            /\ data_lock' # "reader"]_vars
    /\ [][reader_pc = "backoff" /\ reader_pc' # "backoff" =>
            reader_pc' \in {"check", "killed"}]_vars

\* Two exceptions, then a line with a counter and an RSSI, whose pair is in
\* the buffer.
C17_Witness ==
    /\ errors = 2
    /\ fed = 3
    /\ appended = <<<<1, -50>>>>
    /\ live_counters = <<1>>
    /\ ~stop_flag
    /\ reader_pc = "check"

\* C20: a pair is appended exactly when a counter and an RSSI have both been
\* seen since the last append: each append is of the last counter and the
\* last RSSI seen since the one before, serial_reader never goes to a new
\* call of readline with both seen, its two pending values are what has been
\* seen since the last append, and no value is in two pairs.
C20_StreamingCompleteness ==
    /\ [][appended' # appended =>
            /\ seen_c # None
            /\ seen_r # None
            /\ appended' = Append(appended, <<seen_c[1], seen_r[1]>>)]_vars
    /\ [](reader_pc \in {"check", "call", "read"} =>
            /\ ~(seen_c # None /\ seen_r # None)
            /\ current_counter = seen_c
            /\ current_rssi = seen_r)
    /\ [](\A i, j \in 1..Len(appended) : i # j =>
            /\ appended[i][1] # appended[j][1]
            /\ appended[i][2] # appended[j][2])

\* The combined figure has been drawn.
CombinedDrawn == view_pc \in {"bars", "finished"} /\ combined # <<>>

\* C18 (as claimed): the combined view has the sessions in the order given,
\* each with its y values in its own sorted order on consecutive indices, the
\* first from 0, each later one from 5 past the number of indices that end
\* with the session before it (its last index + 1 + 5); a session of 3
\* points on 0, 1, 2 is followed by a session of 2 points on 8, 9.
C18_CombinedIndexView ==
    CombinedDrawn =>
        /\ Len(combined) = Len(all_line_data)
        /\ \A i \in 1..Len(combined) :
            LET xs == combined[i][2]
            IN  /\ combined[i][1] = all_line_data[i][1]
                /\ combined[i][3] = all_line_data[i][4]
                /\ Len(xs) = Len(all_line_data[i][3])
                /\ \A k \in 1..(Len(xs) - 1) : xs[k + 1] = xs[k] + 1
                /\ i = 1 => xs[1] = 0
                /\ i > 1 =>
                     LET prev == combined[i - 1][2]
                     IN  xs[1] = prev[Len(prev)] + 1 + 5
        /\ (Len(all_line_data[1][3]) = 3 /\ Len(all_line_data[2][3]) = 2)
              => combined[2][2] = <<8, 9>>

\* Sums and bounds of exact quotients.
SumIs(p, q, v) ==
    /\ ~IsNaN(p)
    /\ ~IsNaN(q)
    /\ p.num * q.den + q.num * p.den = v * p.den * q.den
InPercentRange(p) == ~IsNaN(p) /\ 0 <= p.num /\ p.num <= 100 * p.den

\* The bars of the loss/received view are as C19 says: per session, in the
\* order of the sessions, received % + loss % = 100, received count + loss
\* count = expected_count, both percentages within 0..100.
BarsComplementary ==
    /\ Len(bars[1]) = Len(all_line_data)
    /\ \A i \in 1..Len(bars[1]) :
        LET b == bars[1][i]
        IN  /\ b.label = all_line_data[i][1]
            /\ b.label = ViewLabel(i)
            /\ SumIs(b.recv_pct, b.loss_pct, 100)
            /\ b.recv_count + b.loss_count = expected_count
            /\ InPercentRange(b.loss_pct)
            /\ InPercentRange(b.recv_pct)
            /\ b.loss_count >= 0
            /\ b.recv_count >= 0

LastWins(d, h) ==
    \A k \in FieldKeys :
        /\ k \in DOMAIN d <=> k \in DOMAIN h.last
        /\ k \in DOMAIN d => d[k] = h.last[k]

\* C21: every emitted record, and the open record, carries for each field the
\* value of the last line of that field read in its block; a field line
\* leaves the emitted records as they are, and the open record in the block
\* it was opened in.
C21_LastWriteWins ==
    /\ [](\A i \in 1..Len(records) : LastWins(records[i], rec_h[i]))
    /\ [](current # None => LastWins(current[1], cur_h))
    /\ [][line' = "field" /\ nlines' = nlines + 1 =>
            /\ records' = records
            /\ rec_h' = rec_h
            /\ cur_h'.blk = cur_h.blk
            /\ (current = None <=> current' = None)]_vars

\* A record whose block read the counter 6, then the counter 5, was emitted
\* with 5; the record of the block before it keeps its 6.
C21_Witness ==
    /\ Len(records) = 2
    /\ <<"tx_counter", 5>> \in rec_h[2].seen
    /\ <<"tx_counter", 6>> \in rec_h[2].seen
    /\ records[2]["tx_counter"] = 5
    /\ rec_h[1].seen = {<<"tx_counter", 6>>, <<"rssi_dbm", -60>>}
    /\ records[1]["tx_counter"] = 6

\* What summarize_records reports of the list rs, computed now.
MetricsNow(rs) ==
    IF rs = <<>>
      THEN IF script = "combine" THEN EmptyResult(Label, expected_count)
                                 ELSE EmptyResultSingle(Label)
      ELSE IF script = "combine" THEN Metrics(rs, Label, expected_count)
                                 ELSE MetricsSingle(rs, Label)

\* C22: no step of summarize_records, of the per-file plots or of the
\* building of the cross-file lists changes the record list, in content or in
\* order; and what summarize_records reported is what it reports of the list
\* whenever it is computed again, also after the plots and the lists.
C22_PureProjections ==
    /\ [][records' = records]_vars
    /\ [](metrics # None => metrics[1] = MetricsNow(records))
    /\ [](plot_xy # None => plot_xy[1].hist = Column(records, "rssi_dbm"))

\* main is through with a file whose records are not in the order of their
\* timestamps: the series are sorted, the list is as it was.
C22_Witness ==
    /\ apc = "finished"
    /\ script = "combine"
    /\ Len(records) = 3
    /\ Sorted(records) # records
    /\ metrics # None
    /\ Len(all_line_data) = 1
    /\ all_line_data[1][3] = Column(Sorted(records), "tx_counter")
    /\ all_line_data[1][3] # Column(records, "tx_counter")

\* Record r of the analysis scripts and record c of the CSV export carry the
\* same fields with the same values, r under the analysis keys and with the
\* tags file and scan_cycle, c under the CSV keys and with the tag
\* tx_device_name.
SameRecord(r, c) ==
    /\ \A k \in FieldKeys :
        /\ k \in DOMAIN r <=> CsvKey(k) \in DOMAIN c
        /\ k \in DOMAIN r => c[CsvKey(k)] = r[k]
    /\ DOMAIN r \ FieldKeys = {"file", "scan_cycle"}
    /\ DOMAIN c \ {CsvKey(k) : k \in FieldKeys} = {"tx_device_name"}

\* C23: after every prefix of the lines the CSV export's parse_log and the
\* analysis scripts' parse_log are both running, both done or both stopped
\* by the same exception, both with or both without an open record, and have
\* emitted the same number of records, of the same blocks in the same order,
\* with the same five values; each CSV row has the value where the analysis
\* record has the field and the empty string where it has not.
C23_ParsersAgree ==
    /\ csv_pc = pc
    /\ (csv_current = None <=> current = None)
    /\ Len(csv_records) = Len(records)
    /\ \A i \in 1..Len(records) :
        /\ csv_rec_blk[i] = rec_h[i].blk
        /\ SameRecord(records[i], csv_records[i])
        /\ \A k \in FieldKeys :
            CsvRows(csv_records)[i][CsvKey(k)] = Get(records[i], k)
        /\ CsvRows(csv_records)[i]["tx_device_name"] = Some(TxDeviceName)

\* Both are done with a log of two blocks, the first with three fields, the
\* second with an RSSI only and after a scan-cycle marker.
C23_Witness ==
    /\ pc = "done"
    /\ csv_pc = "done"
    /\ Len(csv_records) = 2
    /\ DOMAIN csv_records[1] =
         {"payload_counter", "tx_unix_ms(phone)", "rssi_dbm", "tx_device_name"}
    /\ DOMAIN csv_records[2] = {"rssi_dbm", "tx_device_name"}
    /\ records[2]["scan_cycle"] # None
    /\ CsvRows(csv_records)[2]["delta_ms"] = None

\* C24: after every prefix of the lines there are at most as many records as
\* block-start markers read; every record is of a block of its own, one that
\* was opened by a marker and read an RSSI line, so there are at most as
\* many records as RSSI lines read inside blocks; a step emits at most one
\* record, and none while no record is open: not a block-start marker, a
\* blank line or the end of input that follows a blank line's flush.
C24_AtMostOnePerBlock ==
    /\ [](Len(records) <= nblocks)
    /\ [](Len(rec_h) = Len(records))
    /\ [](\A i \in 1..Len(rec_h) :
            /\ rec_h[i].blk \in 1..nblocks
            /\ \E v \in FieldVals("rssi_dbm") : <<"rssi_dbm", v>> \in rec_h[i].seen
            /\ \A j \in 1..Len(rec_h) : i # j => rec_h[i].blk # rec_h[j].blk)
    /\ [][Len(records') \in {Len(records), Len(records) + 1}]_vars
    /\ [][current = None => records' = records]_vars
    /\ [][line' = "blank" /\ nlines' = nlines + 1 /\ records' # records =>
            current' = None]_vars

\* One record of two blocks: the first block was flushed by a blank line and
\* the lines after it (another blank line or an unmatched one, a block-start
\* marker, the end of input) emitted nothing more.
C24_Witness ==
    /\ pc = "done"
    /\ nlines = 5
    /\ nblocks = 2
    /\ Len(records) = 1
    /\ rec_h[1].by = "blank"
    /\ rec_h[1].blk = 1
    /\ rec_h[1].seen = {<<"rssi_dbm", -60>>}
    /\ current = Some([scan_cycle |-> None])

\* C25 (as claimed): whenever the first and the last record in sorted order
\* both have a tx_unix_ms, the time span summarize_records reports is
\* (last tx_unix_ms - first tx_unix_ms) / 1000, a timestamp of 0 included;
\* the span is NaN only when one of the two timestamps is absent.
C25_TimeSpan ==
    (records # <<>> /\ metrics # None) =>
        LET s == Sorted(records)
            first == Get(s[1], "tx_unix_ms")
            last == Get(s[Len(s)], "tx_unix_ms")
            d == metrics[1].duration_s
        IN  /\ (first # None /\ last # None) =>
                    RatEq(d, last[1] - first[1], 1000)
            /\ IsNaN(d) => (first = None \/ last = None)

====
